---- MODULE Spec2Model ----
(***************************************************************************)
(* Model of the bookkeeping backend of contable19.py (class                *)
(* ContabilidadApp) over its SQLite store: the tables Cuentas and          *)
(* Transacciones, the in-memory map nombre_a_id, and the reports derived   *)
(* from them.                                                              *)
(*                                                                         *)
(* Text is modelled as a sequence of one-character strings so that         *)
(* strip() and upper() are computed, not assumed.  Amounts are integers    *)
(* (minor units): the test abs(x) > 0.009 is then x # 0 and the test       *)
(* abs(x) < 0.01 is x = 0.  Python's None is modelled as 0 where the code  *)
(* only tests its truth value (row ids start at 1).  The columns           *)
(* referencia_documento and referencia_banco take no part in any           *)
(* computation and are left out of the rows.  Failures of the store itself *)
(* (sqlite3.Error other than a constraint violation) are not modelled.     *)
(*                                                                         *)
(* The timestamp of an entry is written by the operations and read only by *)
(* the ORDER BY of the listings.  Spec is the program with all calls       *)
(* falling in the same second; SpecReloj adds the passing of time (Tic)    *)
(* between calls.  SpecSaldos adds calls of calcular_saldos and of the     *)
(* reports between the operations, SpecMayor is the program driven for the *)
(* ledger view, and SpecImportar the program driven by long sheets.        *)
(* ret is the (exito, mensaje) pair returned by the last call, with the    *)
(* name of the operation.                                                  *)
(***************************************************************************)
EXTENDS Integers, Sequences, FiniteSets, TLC

VARIABLES Cuentas, Transacciones, nombre_a_id, reloj, ret

vars == <<Cuentas, Transacciones, nombre_a_id, reloj, ret>>

(* ------------------------------ bounds -------------------------------- *)
MaxCuentaId == 2

MaxTransId == 2

MaxReloj == 2

(* ------------------------------- text --------------------------------- *)
Minusculas ==
    <<"a","b","c","d","e","f","g","h","i","j","k","l","m",
      "n","o","p","q","r","s","t","u","v","w","x","y","z">>

Mayusculas ==
    <<"A","B","C","D","E","F","G","H","I","J","K","L","M",
      "N","O","P","Q","R","S","T","U","V","W","X","Y","Z">>

Espacios == {" "}

\* str.upper() on the characters of the model's alphabet
UpperTabla ==
    [c \in {Minusculas[i] : i \in 1..26} |->
        Mayusculas[CHOOSE i \in 1..26 : Minusculas[i] = c]]

UpperChar(c) == IF c \in DOMAIN UpperTabla THEN UpperTabla[c] ELSE c

Upper(s) == [i \in 1..Len(s) |-> UpperChar(s[i])]

RECURSIVE LStrip(_)
LStrip(s) ==
    IF s # <<>> /\ Head(s) \in Espacios THEN LStrip(Tail(s)) ELSE s

RECURSIVE RStrip(_)
RStrip(s) ==
    IF s # <<>> /\ s[Len(s)] \in Espacios
    THEN RStrip(SubSeq(s, 1, Len(s) - 1))
    ELSE s

Strip(s) == RStrip(LStrip(s))

(* ------------------------- program constants -------------------------- *)
ACTIVO == <<"A","C","T","I","V","O">>

PASIVO == <<"P","A","S","I","V","O">>

CAPITAL == <<"C","A","P","I","T","A","L">>

INGRESO == <<"I","N","G","R","E","S","O">>

GASTO == <<"G","A","S","T","O">>

tipos_cuenta == {ACTIVO, PASIVO, CAPITAL, INGRESO, GASTO}

tipos_saldo_acreedor == {PASIVO, CAPITAL, INGRESO}

(* ------------------------------ inputs -------------------------------- *)
NombresEntrada == { <<" ">>, <<"a">>, <<"A"," ">>, <<" ","b">> }

TiposEntrada ==
    { ACTIVO, <<"p","a","s","i","v","o"," ">>, <<" ","C","a","p","i","t","a","l">>,
      <<"i","n","g","r","e","s","o">>, GASTO, <<"O","T","R","O">> }

DescripcionesEntrada == { <<"v"," ">> }

MontosEntrada == { -1, 0, 1 }

CuentaIds == {1, 2}

\* A MONTO cell: empty (NaN), text that float() rejects, or a number.
Vacio == [k |-> "vacio", v |-> 0]

Texto == [k |-> "texto", v |-> 0]

Num(n) == [k |-> "num", v |-> n]

Fila(desc, debito, credito, monto) ==
    [DESCRIPCION |-> desc, CUENTA_DEBITO |-> debito,
     CUENTA_CREDITO |-> credito, MONTO |-> monto]

TransIds == {1, 2, 3}

R_ok == Fila(<<"v">>, <<"a">>, <<"B"," ">>, Num(2))

R_misma == Fila(<<" ">>, <<"a">>, <<"A">>, Num(1))

R_cero == Fila(<<"v">>, <<" ","b">>, <<"a">>, Num(0))

R_vacio == Fila(<<"v">>, <<"a">>, <<"B"," ">>, Vacio)

R_texto == Fila(<<"v">>, <<"z">>, <<"a">>, Texto)

R_debito == Fila(<<"v">>, <<"z">>, <<"a">>, Num(1))

Filas == { R_ok, R_misma, R_cero, R_vacio, R_texto, R_debito }

\* The sheets offered to the importer
Lotes ==
    { <<>>,
      <<R_ok>>,
      <<R_misma>>,
      <<R_ok, R_debito, R_ok>>,
      <<R_vacio, R_texto, R_cero>> }

\* ten rows that no registry admits
L_diez ==
    <<R_vacio, R_texto, R_cero, R_debito, R_vacio,
      R_texto, R_cero, R_debito, R_vacio, R_texto>>

\* the sheets with ten rejected rows or more
LotesLargos ==
    { L_diez,
      L_diez \o <<R_ok, R_debito>>,
      L_diez \o <<R_cero, R_debito, R_texto>> }

Archivos ==
    { [existe |-> FALSE, columnas_ok |-> TRUE, filas |-> <<>>],
      [existe |-> TRUE, columnas_ok |-> FALSE, filas |-> <<>>] }
    \cup { [existe |-> TRUE, columnas_ok |-> TRUE, filas |-> l] : l \in Lotes }

\* Every text the operations are given, with its strip().upper() form
\* computed once.
TextosEntrada ==
    NombresEntrada \cup TiposEntrada
    \cup {f.CUENTA_DEBITO : f \in Filas} \cup {f.CUENTA_CREDITO : f \in Filas}

NormalizarTabla == [s \in TextosEntrada |-> Upper(Strip(s))]

\* s.strip().upper()
Normalizar(s) ==
    IF s \in DOMAIN NormalizarTabla THEN NormalizarTabla[s] ELSE Upper(Strip(s))

(* ------------------------------ helpers ------------------------------- *)
Abs(x) == IF x < 0 THEN -x ELSE x

MaxDe(S) == CHOOSE x \in S : \A y \in S : y <= x

\* INTEGER PRIMARY KEY without AUTOINCREMENT: the next rowid is one more
\* than the largest rowid currently in the table.
NuevoId(tabla) ==
    IF tabla = {} THEN 1 ELSE MaxDe({r.id : r \in tabla}) + 1

RECURSIVE SumaMontos(_)
SumaMontos(S) ==
    IF S = {} THEN 0
    ELSE LET t == CHOOSE x \in S : TRUE
         IN  t.monto + SumaMontos(S \ {t})

Get(mapa, k) == IF k \in DOMAIN mapa THEN mapa[k] ELSE 0

MapaVacio == [k \in {} |-> 0]

\* self.nombre_a_id[nombre] = id
MapaCon(mapa, nombre, id) ==
    [k \in DOMAIN mapa \cup {nombre} |-> IF k = nombre THEN id ELSE mapa[k]]

\* the key left in place
MapaSin_mut(mapa, nombre) == mapa

\* del self.nombre_a_id[nombre]
MapaSin(mapa, nombre) == [k \in DOMAIN mapa \ {nombre} |-> mapa[k]]

(* --------------------------- account registry ------------------------- *)
ViolaUnique_mut(nombre) == FALSE

\* Cuentas.nombre is declared UNIQUE: the INSERT raises IntegrityError
\* when a row with the same stored name exists.
ViolaUnique(nombre) == \E c \in Cuentas : c.nombre = nombre

TipoInvalido_mut(tipo) == FALSE

TipoInvalido(tipo) == tipo \notin tipos_cuenta

crear_cuenta(nombre_in, tipo_in) ==
    LET nombre == Normalizar(nombre_in)
        tipo   == Normalizar(tipo_in)
        id     == NuevoId(Cuentas)
        r(e, m) == [op |-> "crear_cuenta", exito |-> e, mensaje |-> m]
    IN  IF nombre = <<>> \/ TipoInvalido(tipo) \/ ViolaUnique(nombre)
        THEN /\ ret' = r(FALSE, IF nombre = <<>> THEN "nombre_vacio"
                                ELSE IF TipoInvalido(tipo) THEN "tipo_invalido"
                                ELSE "error_de_integridad")
             /\ UNCHANGED <<Cuentas, Transacciones, nombre_a_id, reloj>>
        ELSE /\ id <= MaxCuentaId
             /\ Cuentas' = Cuentas \cup {[id |-> id, nombre |-> nombre, tipo |-> tipo]}
             /\ nombre_a_id' = MapaCon(nombre_a_id, nombre, id)
             /\ ret' = r(TRUE, "creada")
             /\ UNCHANGED <<Transacciones, reloj>>

obtener_nombre_cuenta(id) ==
    IF \E c \in Cuentas : c.id = id
    THEN (CHOOSE c \in Cuentas : c.id = id).nombre
    ELSE <<>>

CuentaEnUso_mut(cuenta_id) ==
    Cardinality({t \in Transacciones : t.cuenta_debito_id = cuenta_id}) > 0

\* SELECT COUNT(*) ... WHERE cuenta_debito_id = ? OR cuenta_credito_id = ?
CuentaEnUso(cuenta_id) ==
    Cardinality({t \in Transacciones :
                    t.cuenta_debito_id = cuenta_id \/ t.cuenta_credito_id = cuenta_id}) > 0

\* the deletion cascading to the entries of the account
eliminar_cuenta_mut(cuenta_id) ==
    /\ Cuentas' = {c \in Cuentas : c.id # cuenta_id}
    /\ Transacciones' =
          {t \in Transacciones :
              t.cuenta_debito_id # cuenta_id /\ t.cuenta_credito_id # cuenta_id}
    /\ nombre_a_id' =
          [k \in {n \in DOMAIN nombre_a_id : nombre_a_id[n] # cuenta_id} |-> nombre_a_id[k]]
    /\ ret' = [op |-> "eliminar_cuenta", exito |-> TRUE, mensaje |-> "eliminada"]
    /\ UNCHANGED reloj

eliminar_cuenta(cuenta_id) ==
    LET nombre_cuenta == obtener_nombre_cuenta(cuenta_id)
        r(e, m) == [op |-> "eliminar_cuenta", exito |-> e, mensaje |-> m]
    IN  IF CuentaEnUso(cuenta_id)
        THEN /\ ret' = r(FALSE, "tiene_transacciones")
             /\ UNCHANGED <<Cuentas, Transacciones, nombre_a_id, reloj>>
        ELSE /\ Cuentas' = {c \in Cuentas : c.id # cuenta_id}
             /\ nombre_a_id' =
                    IF nombre_cuenta # <<>> /\ Upper(nombre_cuenta) \in DOMAIN nombre_a_id
                    THEN MapaSin(nombre_a_id, Upper(nombre_cuenta))
                    ELSE nombre_a_id
             /\ ret' = r(TRUE, "eliminada")
             /\ UNCHANGED <<Transacciones, reloj>>

(* ------------------------------- journal ------------------------------ *)
\* datetime.datetime.now(), to the second
Ahora == reloj

RegistrarRechaza_mut(debito_id, credito_id, monto) ==
    debito_id = credito_id \/ monto < 0

RegistrarRechaza(debito_id, credito_id, monto) ==
    debito_id = credito_id \/ monto <= 0

\* The connection never issues PRAGMA foreign_keys = ON, so SQLite does not
\* enforce the FOREIGN KEY clauses of Transacciones: the INSERT succeeds for
\* any integer account ids.
InsertTransaccionFalla(debito_id, credito_id) == FALSE

registrar_transaccion(descripcion, debito_id, credito_id, monto) ==
    LET r(e, m) == [op |-> "registrar_transaccion", exito |-> e, mensaje |-> m]
        id == NuevoId(Transacciones)
    IN  IF RegistrarRechaza(debito_id, credito_id, monto)
           \/ InsertTransaccionFalla(debito_id, credito_id)
        THEN /\ ret' = r(FALSE, IF debito_id = credito_id THEN "cuentas_iguales"
                                ELSE IF monto <= 0 THEN "monto_no_positivo"
                                ELSE "error_de_integridad")
             /\ UNCHANGED <<Cuentas, Transacciones, nombre_a_id, reloj>>
        ELSE /\ id <= MaxTransId
             /\ Transacciones' = Transacciones \cup
                  {[id |-> id, fecha |-> Ahora, descripcion |-> Strip(descripcion),
                    cuenta_debito_id |-> debito_id,
                    cuenta_credito_id |-> credito_id, monto |-> monto]}
             /\ ret' = r(TRUE, "ninguno")
             /\ UNCHANGED <<Cuentas, nombre_a_id, reloj>>

\* SELECT ... FROM Transacciones T JOIN Cuentas CD ... JOIN Cuentas CC ...
\* (inner joins); the rows are given as a set, their id included.
obtener_transacciones_diario ==
    { [id |-> t.id, fecha |-> t.fecha, descripcion |-> t.descripcion, monto |-> t.monto,
       nombre_debito |-> cd.nombre, nombre_credito |-> cc.nombre] :
        <<t, cd, cc>> \in
          { x \in Transacciones \X Cuentas \X Cuentas :
               x[1].cuenta_debito_id = x[2].id /\ x[1].cuenta_credito_id = x[3].id } }

\* DELETE ... WHERE id = ? raises nothing when no row matches.
DeleteTransaccionFalla(transaccion_id) == FALSE

\* the DELETE taking every entry up to the given id
eliminar_transaccion_mut(transaccion_id) ==
    /\ Transacciones' = {t \in Transacciones : t.id > transaccion_id}
    /\ ret' = [op |-> "eliminar_transaccion", exito |-> TRUE, mensaje |-> "eliminada"]
    /\ UNCHANGED <<Cuentas, nombre_a_id, reloj>>

eliminar_transaccion(transaccion_id) ==
    LET r(e, m) == [op |-> "eliminar_transaccion", exito |-> e, mensaje |-> m]
    IN  IF DeleteTransaccionFalla(transaccion_id)
        THEN /\ ret' = r(FALSE, "error_al_eliminar")
             /\ UNCHANGED <<Cuentas, Transacciones, nombre_a_id, reloj>>
        ELSE /\ Transacciones' = {t \in Transacciones : t.id # transaccion_id}
             /\ ret' = r(TRUE, "eliminada")
             /\ UNCHANGED <<Cuentas, nombre_a_id, reloj>>

(* ---------------------------- bulk importer --------------------------- *)
ErrorFila(index, motivo, nombre) ==
    [fila |-> index + 2, motivo |-> motivo, nombre |-> nombre]

\* the amount tested for its sign before the names are resolved
ImportarFila_mut(est, index, row) ==
    LET debito_nombre  == Normalizar(row.CUENTA_DEBITO)
        credito_nombre == Normalizar(row.CUENTA_CREDITO)
        debito_id  == Get(nombre_a_id, debito_nombre)
        credito_id == Get(nombre_a_id, credito_nombre)
        conError(m, n) == [est EXCEPT !.errores = Append(@, ErrorFila(index, m, n))]
    IN  IF row.MONTO.k # "num"
        THEN conError("formato_monto", <<>>)
        ELSE IF row.MONTO.v <= 0
        THEN conError("monto_no_positivo", <<>>)
        ELSE IF debito_id = 0
        THEN conError("debito_no_existe", debito_nombre)
        ELSE IF credito_id = 0
        THEN conError("credito_no_existe", credito_nombre)
        ELSE [est EXCEPT
                !.trans = @ \cup
                    {[id |-> NuevoId(est.trans), fecha |-> Ahora,
                      descripcion |-> Strip(row.DESCRIPCION),
                      cuenta_debito_id |-> debito_id,
                      cuenta_credito_id |-> credito_id, monto |-> row.MONTO.v]},
                !.importadas = @ + 1]

\* One pass of the body of "for index, row in df.iterrows()": est holds the
\* rows inserted so far, the counter and the error list.
ImportarFila(est, index, row) ==
    LET debito_nombre  == Normalizar(row.CUENTA_DEBITO)
        credito_nombre == Normalizar(row.CUENTA_CREDITO)
        debito_id  == Get(nombre_a_id, debito_nombre)
        credito_id == Get(nombre_a_id, credito_nombre)
        conError(m, n) == [est EXCEPT !.errores = Append(@, ErrorFila(index, m, n))]
    IN  IF row.MONTO.k # "num"
        THEN conError("formato_monto", <<>>)
        ELSE IF debito_id = 0
        THEN conError("debito_no_existe", debito_nombre)
        ELSE IF credito_id = 0
        THEN conError("credito_no_existe", credito_nombre)
        ELSE IF row.MONTO.v <= 0
        THEN conError("monto_no_positivo", <<>>)
        ELSE [est EXCEPT
                !.trans = @ \cup
                    {[id |-> NuevoId(est.trans), fecha |-> Ahora,
                      descripcion |-> Strip(row.DESCRIPCION),
                      cuenta_debito_id |-> debito_id,
                      cuenta_credito_id |-> credito_id, monto |-> row.MONTO.v]},
                !.importadas = @ + 1]

\* the loop leaving at the first rejected row instead of continuing
RECURSIVE ImportarFilas_mut(_, _, _)
ImportarFilas_mut(est, filas, i) ==
    IF i > Len(filas) \/ est.errores # <<>> THEN est
    ELSE ImportarFilas_mut(ImportarFila(est, i - 1, filas[i]), filas, i + 1)

RECURSIVE ImportarFilas(_, _, _)
ImportarFilas(est, filas, i) ==
    IF i > Len(filas) THEN est
    ELSE ImportarFilas(ImportarFila(est, i - 1, filas[i]), filas, i + 1)

\* the error text with every message in it
MensajeErrores_mut(errores) == [detalle |-> errores, resumen |-> <<>>]

\* "\n".join(errores[:10]), followed by "... y N errores más." when
\* len(errores) > 10: the messages in the text and the count N, if any.
MensajeErrores(errores) ==
    [detalle |-> SubSeq(errores, 1, IF Len(errores) > 10 THEN 10 ELSE Len(errores)),
     resumen |-> IF Len(errores) > 10 THEN <<Len(errores) - 10>> ELSE <<>>]

\* the batch rolled back when a row is rejected
importar_transacciones_excel_mut(archivo) ==
    LET r(e, m, n, errs) ==
            [op |-> "importar_transacciones_excel", exito |-> e, mensaje |-> m,
             archivo |-> archivo, importadas |-> n, errores |-> errs,
             mensaje_errores |-> MensajeErrores(errs)]
    IN  IF ~archivo.existe \/ ~archivo.columnas_ok
        THEN /\ ret' = r(FALSE, IF ~archivo.existe THEN "archivo_no_encontrado"
                                ELSE "faltan_columnas", 0, <<>>)
             /\ UNCHANGED <<Cuentas, Transacciones, nombre_a_id, reloj>>
        ELSE \E fin \in {ImportarFilas([trans |-> Transacciones, importadas |-> 0,
                                         errores |-> <<>>], archivo.filas, 1)} :
                 /\ \A t \in fin.trans : t.id <= MaxTransId
                 /\ Transacciones' =
                       (IF fin.errores = <<>> THEN fin.trans ELSE Transacciones)
                 /\ ret' = r(fin.errores = <<>>,
                             IF fin.errores = <<>> THEN "importacion_exitosa"
                             ELSE "importacion_parcial",
                             fin.importadas, fin.errores)
                 /\ UNCHANGED <<Cuentas, nombre_a_id, reloj>>

\* ret keeps, besides the flag and the kind of message, the sheet given, the
\* two counts the message states and its error text.
importar_transacciones_excel(archivo) ==
    LET r(e, m, n, errs) ==
            [op |-> "importar_transacciones_excel", exito |-> e, mensaje |-> m,
             archivo |-> archivo, importadas |-> n, errores |-> errs,
             mensaje_errores |-> MensajeErrores(errs)]
    IN  IF ~archivo.existe \/ ~archivo.columnas_ok
        THEN /\ ret' = r(FALSE, IF ~archivo.existe THEN "archivo_no_encontrado"
                                ELSE "faltan_columnas", 0, <<>>)
             /\ UNCHANGED <<Cuentas, Transacciones, nombre_a_id, reloj>>
        ELSE \E fin \in {ImportarFilas([trans |-> Transacciones, importadas |-> 0,
                                         errores |-> <<>>], archivo.filas, 1)} :
                 /\ \A t \in fin.trans : t.id <= MaxTransId
                 /\ Transacciones' = fin.trans
                 /\ ret' = r(fin.errores = <<>>,
                             IF fin.errores = <<>> THEN "importacion_exitosa"
                             ELSE "importacion_parcial",
                             fin.importadas, fin.errores)
                 /\ UNCHANGED <<Cuentas, nombre_a_id, reloj>>

(* --------------------------- balance engine --------------------------- *)
\* SELECT cuenta_debito_id, SUM(monto) ... GROUP BY cuenta_debito_id, read
\* with debitos.get(id, 0.0)
TotalDebito(id) == SumaMontos({t \in Transacciones : t.cuenta_debito_id = id})

\* the credit total read from the debit column
TotalCredito_mut(id) == SumaMontos({t \in Transacciones : t.cuenta_debito_id = id})

TotalCredito(id) == SumaMontos({t \in Transacciones : t.cuenta_credito_id = id})

SaldoNeto(id) == TotalDebito(id) - TotalCredito(id)

calcular_saldos ==
    [id \in {c.id : c \in Cuentas} |->
        LET c == CHOOSE x \in Cuentas : x.id = id
        IN  [nombre |-> c.nombre, tipo |-> c.tipo, saldo |-> SaldoNeto(id)]]

\* a computation that clears the journal it has read
LlamarCalcularSaldos_mut ==
    /\ ret' = [op |-> "calcular_saldos", exito |-> TRUE, mensaje |-> "ninguno",
               saldos |-> calcular_saldos]
    /\ Transacciones' = {}
    /\ UNCHANGED <<Cuentas, nombre_a_id, reloj>>

\* A call of calcular_saldos: three SELECTs and no write; ret keeps the
\* dictionary it returned.
LlamarCalcularSaldos ==
    /\ ret' = [op |-> "calcular_saldos", exito |-> TRUE, mensaje |-> "ninguno",
               saldos |-> calcular_saldos]
    /\ UNCHANGED <<Cuentas, Transacciones, nombre_a_id, reloj>>

\* the accumulation loops "for id, data in saldos.items(): total += ..."
RECURSIVE SumaDe(_, _)
SumaDe(aporte, ids) ==
    IF ids = {} THEN 0
    ELSE LET id == CHOOSE x \in ids : TRUE
         IN  aporte[id] + SumaDe(aporte, ids \ {id})

AporteIngreso(data) == IF data.tipo = INGRESO THEN Abs(data.saldo) ELSE 0

\* the absolute value taken for expenses as it is for income
AporteGasto_mut(data) == IF data.tipo = GASTO THEN Abs(data.saldo) ELSE 0

AporteGasto(data) == IF data.tipo = GASTO THEN data.saldo ELSE 0

\* "saldos = self.calcular_saldos()" is the one call the function makes: the
\* value is bound once and the totals are read from it.
calcular_estado_resultados ==
    CHOOSE r \in
      { LET ids == DOMAIN saldos
            ingresos_totales == SumaDe([id \in ids |-> AporteIngreso(saldos[id])], ids)
            gastos_totales   == SumaDe([id \in ids |-> AporteGasto(saldos[id])], ids)
        IN  [ingresos_totales |-> ingresos_totales,
             gastos_totales |-> gastos_totales,
             utilidad_perdida_neta |-> ingresos_totales - gastos_totales]
        : saldos \in {calcular_saldos} } : TRUE

\* assets added as absolute values
AporteActivo_mut(data) == IF data.tipo = ACTIVO THEN Abs(data.saldo) ELSE 0

AporteActivo(data) == IF data.tipo = ACTIVO THEN data.saldo ELSE 0

\* liabilities added with their sign
AportePasivo_mut(data) == IF data.tipo = PASIVO THEN data.saldo ELSE 0

AportePasivo(data) == IF data.tipo = PASIVO THEN Abs(data.saldo) ELSE 0

AporteCapital(data) == IF data.tipo = CAPITAL THEN Abs(data.saldo) ELSE 0

\* saldos and the income statement are each computed once, as in the code
calcular_balance_general ==
    CHOOSE r \in
      { LET ids == DOMAIN saldos
            utilidad_perdida_neta == er.utilidad_perdida_neta
            total_activo  == SumaDe([id \in ids |-> AporteActivo(saldos[id])], ids)
            total_pasivo  == SumaDe([id \in ids |-> AportePasivo(saldos[id])], ids)
            total_capital == SumaDe([id \in ids |-> AporteCapital(saldos[id])], ids)
            total_capital_ajustado == total_capital + utilidad_perdida_neta
        IN  [activo |-> total_activo,
             pasivo |-> total_pasivo,
             capital |-> total_capital,
             utilidad_neta |-> utilidad_perdida_neta,
             pasivo_mas_capital_ajustado |-> total_pasivo + total_capital_ajustado]
        : saldos \in {calcular_saldos}, er \in {calcular_estado_resultados} } : TRUE

\* SELECT ... WHERE T.cuenta_debito_id = ? OR T.cuenta_credito_id = ?
\* ORDER BY T.fecha ASC.  The order of rows with equal fecha is left open by
\* the query: the result is any arrangement of the rows in ascending fecha.
obtener_movimientos_cuenta(cuenta_id) ==
    LET M == {t \in Transacciones :
                 t.cuenta_debito_id = cuenta_id \/ t.cuenta_credito_id = cuenta_id}
        n == Cardinality(M)
    IN  { s \in [1..n -> M] :
            /\ \A i \in 1..n, j \in 1..n : i # j => s[i] # s[j]
            /\ \A i \in 1..n, j \in 1..n : i < j => s[i].fecha <= s[j].fecha }

MontoDebito(movimiento, cuenta_id) ==
    IF movimiento.cuenta_debito_id = cuenta_id THEN movimiento.monto ELSE 0

MontoCredito(movimiento, cuenta_id) ==
    IF movimiento.cuenta_credito_id = cuenta_id THEN movimiento.monto ELSE 0

\* every account accumulating on the debit side
Acumular_mut(saldo_acumulado, movimiento, cuenta_id, es_saldo_acreedor) ==
    saldo_acumulado
        + (MontoDebito(movimiento, cuenta_id) - MontoCredito(movimiento, cuenta_id))

Acumular(saldo_acumulado, movimiento, cuenta_id, es_saldo_acreedor) ==
    IF es_saldo_acreedor
    THEN saldo_acumulado
            + (MontoCredito(movimiento, cuenta_id) - MontoDebito(movimiento, cuenta_id))
    ELSE saldo_acumulado
            + (MontoDebito(movimiento, cuenta_id) - MontoCredito(movimiento, cuenta_id))

\* the balance started again at every row
SaldoAcumulado_mut(movimientos, i, cuenta_id, es_saldo_acreedor) ==
    IF i = 0 THEN 0
    ELSE Acumular(0, movimientos[i], cuenta_id, es_saldo_acreedor)

\* saldo_acumulado after the first i passes of "for movimiento in movimientos"
RECURSIVE SaldoAcumulado(_, _, _, _)
SaldoAcumulado(movimientos, i, cuenta_id, es_saldo_acreedor) ==
    IF i = 0 THEN 0
    ELSE Acumular(SaldoAcumulado(movimientos, i - 1, cuenta_id, es_saldo_acreedor),
                  movimientos[i], cuenta_id, es_saldo_acreedor)

\* The ledger view of an account of the registry, for one result of the
\* movements query: the rows put in the tree and the "Saldo Actual" label.
actualizar_mayor_cuenta_seleccionada(cuenta_id, movimientos) ==
    LET saldos_iniciales == calcular_saldos
        tipo_saldo == saldos_iniciales[cuenta_id].tipo
        es_saldo_acreedor == tipo_saldo \in tipos_saldo_acreedor
    IN  [filas |->
            [i \in 1..Len(movimientos) |->
                [fecha |-> movimientos[i].fecha,
                 desc |-> movimientos[i].descripcion,
                 monto_debito |-> MontoDebito(movimientos[i], cuenta_id),
                 monto_credito |-> MontoCredito(movimientos[i], cuenta_id),
                 saldo_acumulado |->
                    SaldoAcumulado(movimientos, i, cuenta_id, es_saldo_acreedor)]],
         saldo_actual |->
            SaldoAcumulado(movimientos, Len(movimientos), cuenta_id, es_saldo_acreedor)]

DebitoDisplay(data) == IF data.saldo > 0 THEN data.saldo ELSE 0

\* the credit column showing the balance with its sign
CreditoDisplay_mut(data) == IF data.saldo < 0 THEN data.saldo ELSE 0

CreditoDisplay(data) == IF data.saldo < 0 THEN Abs(data.saldo) ELSE 0

\* The trial balance as the view computes it: rows for the accounts with a
\* balance, the two totals and the "Cuadre" flag.
actualizar_balance_comp ==
    CHOOSE r \in
      { LET cuentas_con_saldo == {id \in DOMAIN saldos : Abs(saldos[id].saldo) # 0}
            total_debitos_netos  == SumaDe([id \in cuentas_con_saldo |-> DebitoDisplay(saldos[id])], cuentas_con_saldo)
            total_creditos_netos == SumaDe([id \in cuentas_con_saldo |-> CreditoDisplay(saldos[id])], cuentas_con_saldo)
        IN  [filas |-> { [id |-> id, nombre |-> saldos[id].nombre, tipo |-> saldos[id].tipo,
                          debito |-> DebitoDisplay(saldos[id]),
                          credito |-> CreditoDisplay(saldos[id])] : id \in cuentas_con_saldo },
             total_debitos_netos |-> total_debitos_netos,
             total_creditos_netos |-> total_creditos_netos,
             cuadrado |-> (Abs(total_debitos_netos - total_creditos_netos) = 0)]
        : saldos \in {calcular_saldos} } : TRUE

\* the other computations of the balance engine, by the name of the function
ConsultasMotor ==
    { "obtener_movimientos_cuenta", "calcular_estado_resultados",
      "calcular_balance_general", "actualizar_balance_comp" }

\* a report that rebuilds the name map from nothing
LlamarConsulta_mut(op) ==
    /\ ret' = [op |-> op, exito |-> TRUE, mensaje |-> "ninguno"]
    /\ nombre_a_id' = MapaVacio
    /\ UNCHANGED <<Cuentas, Transacciones, reloj>>

\* A call of one of them: SELECTs and arithmetic on local variables, the
\* result handed to the caller; no INSERT, UPDATE or DELETE and no write to
\* nombre_a_id.
LlamarConsulta(op) ==
    /\ ret' = [op |-> op, exito |-> TRUE, mensaje |-> "ninguno"]
    /\ UNCHANGED <<Cuentas, Transacciones, nombre_a_id, reloj>>

Init ==
    /\ Cuentas = {}
    /\ Transacciones = {}
    /\ nombre_a_id = MapaVacio
    /\ reloj = 1
    /\ ret = [op |-> "init", exito |-> TRUE, mensaje |-> "ninguno"]

Next ==
    \/ \E n \in NombresEntrada, t \in TiposEntrada : crear_cuenta(n, t)
    \/ \E id \in CuentaIds : eliminar_cuenta(id)
    \/ \E d \in DescripcionesEntrada, deb \in CuentaIds, cre \in CuentaIds,
          m \in MontosEntrada : registrar_transaccion(d, deb, cre, m)
    \/ \E id \in TransIds : eliminar_transaccion(id)
    \/ \E a \in Archivos : importar_transacciones_excel(a)

Spec == Init /\ [][Next]_vars

\* The wall clock moving on by a second between two calls.
Tic ==
    /\ reloj < MaxReloj
    /\ reloj' = reloj + 1
    /\ UNCHANGED <<Cuentas, Transacciones, nombre_a_id, ret>>

NextReloj == Next \/ Tic

SpecReloj == Init /\ [][NextReloj]_vars

\* The program with the balances and reports computed between the calls.
NextSaldos ==
    \/ Next
    \/ LlamarCalcularSaldos
    \/ \E op \in ConsultasMotor : LlamarConsulta(op)

SpecSaldos == Init /\ [][NextSaldos]_vars

\* Sessions for the ledger view: accounts of the five types under two names,
\* entries of amount 1 recorded directly and of amount 2 imported, entries
\* deleted, and the clock moving between the calls.
NombresMayor == { <<"a">>, <<" ","b">> }

TiposMayor == TiposEntrada \ { <<"O","T","R","O">> }

ArchivosMayor == { [existe |-> TRUE, columnas_ok |-> TRUE, filas |-> <<R_ok>>] }

NextMayor ==
    \/ \E n \in NombresMayor, t \in TiposMayor : crear_cuenta(n, t)
    \/ \E d \in DescripcionesEntrada, deb \in CuentaIds, cre \in CuentaIds :
          registrar_transaccion(d, deb, cre, 1)
    \/ \E id \in TransIds : eliminar_transaccion(id)
    \/ \E a \in ArchivosMayor : importar_transacciones_excel(a)
    \/ Tic

SpecMayor == Init /\ [][NextMayor]_vars

\* Sessions for the importer's report: the registry built, long sheets and
\* a one-row sheet imported, entries deleted.
ArchivosImportar ==
    { [existe |-> TRUE, columnas_ok |-> TRUE, filas |-> l] :
        l \in LotesLargos \cup { <<R_ok>> } }

NextImportar ==
    \/ \E n \in NombresMayor, t \in TiposMayor : crear_cuenta(n, t)
    \/ \E id \in TransIds : eliminar_transaccion(id)
    \/ \E a \in ArchivosImportar : importar_transacciones_excel(a)

SpecImportar == Init /\ [][NextImportar]_vars

(* ================================ claims ============================== *)
IdsDeCuentas == {c.id : c \in Cuentas}

Referencia(t, id) == t.cuenta_debito_id = id \/ t.cuenta_credito_id = id

ReferenciasValidas ==
    \A t \in Transacciones :
        t.cuenta_debito_id \in IdsDeCuentas /\ t.cuenta_credito_id \in IdsDeCuentas

\* C1: after any sequence of successful registrar_transaccion calls the
\* trial balance has total debit equal to total credit.
C1_BalanceCuadra ==
    actualizar_balance_comp.total_debitos_netos
        = actualizar_balance_comp.total_creditos_netos

\* C2: after any sequence of valid operations (every stored entry is between
\* two existing accounts, of any types, in either direction) the balance
\* sheet has activo equal to pasivo_mas_capital_ajustado.
C2_EcuacionContable ==
    ReferenciasValidas =>
        calcular_balance_general.activo
            = calcular_balance_general.pasivo_mas_capital_ajustado

\* C3: registrar_transaccion returns failure whenever the debit and credit
\* ids are equal or the amount is <= 0, and then the journal, the registry
\* and the name map are unchanged.  (No successful call has such arguments,
\* and a failed call changes nothing.)
C3_RechazoRegistrar ==
    [][ ret'.op = "registrar_transaccion" =>
          IF ret'.exito
          THEN \A d \in DescripcionesEntrada, deb \in CuentaIds, cre \in CuentaIds,
                  m \in MontosEntrada :
                    registrar_transaccion(d, deb, cre, m) => ~(deb = cre \/ m <= 0)
          ELSE UNCHANGED <<Cuentas, Transacciones, nombre_a_id>>
      ]_vars

\* a call refused for its amount, on a journal that holds an entry
C3_Witness ==
    /\ ret.op = "registrar_transaccion"
    /\ ~ret.exito
    /\ ret.mensaje = "monto_no_positivo"
    /\ Transacciones # {}

\* C4: registrar_transaccion returns failure and stores no entry whenever
\* the debit or the credit id is not the id of an account in the registry.
C4_CuentaDesconocida ==
    [][ ret'.op = "registrar_transaccion" =>
          IF ret'.exito
          THEN \A d \in DescripcionesEntrada, deb \in CuentaIds, cre \in CuentaIds,
                  m \in MontosEntrada :
                    registrar_transaccion(d, deb, cre, m)
                        => (deb \in IdsDeCuentas /\ cre \in IdsDeCuentas)
          ELSE Transacciones' = Transacciones
      ]_vars

\* C5: obtener_transacciones_diario returns every entry stored in the
\* journal (so an entry just recorded with success appears in it).
C5_DiarioCompleto ==
    \A t \in Transacciones : \E f \in obtener_transacciones_diario : f.id = t.id

\* C6: eliminar_cuenta fails and leaves registry, journal and name map
\* unchanged when some entry references the id as debit or credit leg;
\* otherwise it succeeds and no account with that id remains.
C6_GuardaEliminarCuenta ==
    [][ ret'.op = "eliminar_cuenta" =>
          \A id \in CuentaIds :
             eliminar_cuenta(id) =>
                IF \E t \in Transacciones : Referencia(t, id)
                THEN ~ret'.exito /\ UNCHANGED <<Cuentas, Transacciones, nombre_a_id>>
                ELSE ret'.exito /\ id \notin {c.id : c \in Cuentas'}
      ]_vars

\* a refused deletion of an existing account that an entry uses as credit leg
C6_Witness ==
    /\ ret.op = "eliminar_cuenta"
    /\ ~ret.exito
    /\ ret.mensaje = "tiene_transacciones"
    /\ \E c \in Cuentas : \E t \in Transacciones : t.cuenta_credito_id = c.id

\* C7: eliminar_transaccion returns failure when no entry has the given id,
\* and returns success, removing the entry, when one has.
C7_EliminarTransaccion ==
    [][ ret'.op = "eliminar_transaccion" =>
          \A id \in TransIds :
             eliminar_transaccion(id) =>
                IF \E t \in Transacciones : t.id = id
                THEN ret'.exito /\ id \notin {t.id : t \in Transacciones'}
                ELSE ~ret'.exito
      ]_vars

NombresUnicos ==
    \A c1 \in Cuentas, c2 \in Cuentas :
        Upper(Strip(c1.nombre)) = Upper(Strip(c2.nombre)) => c1 = c2

\* C8: crear_cuenta fails, leaving registry and name map unchanged, when the
\* trimmed, uppercased name is the name of an existing account; no two
\* accounts ever have the same normalized name.
C8_NombreDuplicado ==
    /\ []NombresUnicos
    /\ [][ ret'.op = "crear_cuenta" =>
             IF ret'.exito
             THEN \A n \in NombresEntrada, t \in TiposEntrada :
                     crear_cuenta(n, t) => ~\E c \in Cuentas : c.nombre = Upper(Strip(n))
             ELSE UNCHANGED <<Cuentas, nombre_a_id>>
         ]_vars

\* a creation refused by the uniqueness constraint, two accounts in place
C8_Witness ==
    /\ ret.op = "crear_cuenta"
    /\ ~ret.exito
    /\ ret.mensaje = "error_de_integridad"
    /\ Cardinality(Cuentas) = 2

CuentasBienFormadas ==
    \A c \in Cuentas :
        c.nombre # <<>> /\ c.tipo \in {ACTIVO, PASIVO, CAPITAL, INGRESO, GASTO}

\* C9: crear_cuenta fails, adding no account and leaving the name map
\* unchanged, when the name is empty after trimming or the trimmed,
\* uppercased type is not one of the five types; every account has a
\* non-empty name and one of the five types.
C9_NombreTipoInvalido ==
    /\ []CuentasBienFormadas
    /\ [][ ret'.op = "crear_cuenta" =>
             IF ret'.exito
             THEN \A n \in NombresEntrada, t \in TiposEntrada :
                     crear_cuenta(n, t) =>
                        /\ Strip(n) # <<>>
                        /\ Upper(Strip(t)) \in {ACTIVO, PASIVO, CAPITAL, INGRESO, GASTO}
             ELSE UNCHANGED <<Cuentas, nombre_a_id>>
         ]_vars

\* a creation refused for its type, with an account in place
C9_Witness ==
    /\ ret.op = "crear_cuenta"
    /\ ~ret.exito
    /\ ret.mensaje = "tipo_invalido"
    /\ Cardinality(Cuentas) = 1

Resuelve(nombre) == \E c \in Cuentas : c.nombre = Upper(Strip(nombre))

IdDeNombre(nombre) == (CHOOSE c \in Cuentas : c.nombre = Upper(Strip(nombre))).id

Admisible(f) ==
    /\ Resuelve(f.CUENTA_DEBITO)
    /\ Resuelve(f.CUENTA_CREDITO)
    /\ f.MONTO.k = "num"
    /\ f.MONTO.v > 0

\* C10: in a bulk import a row is admitted exactly when both account names
\* resolve in the registry and the amount is present, numeric and > 0; each
\* rejected row gives one error message carrying its sheet row number and
\* does not stop the batch; the admitted rows are stored, one new entry per
\* admitted row with that row's accounts and amount, and are listed by
\* obtener_transacciones_diario.
C10_ImportacionParcial ==
    [][ (ret'.op = "importar_transacciones_excel"
            /\ ret'.archivo.existe /\ ret'.archivo.columnas_ok) =>
          LET filas == ret'.archivo.filas
              admitidas  == {i \in 1..Len(filas) : Admisible(filas[i])}
              rechazadas == {i \in 1..Len(filas) : ~Admisible(filas[i])}
              nuevas == Transacciones' \ Transacciones
          IN  /\ ret'.importadas = Cardinality(admitidas)
              /\ Len(ret'.errores) = Cardinality(rechazadas)
              /\ {ret'.errores[k].fila : k \in 1..Len(ret'.errores)}
                    = {i + 1 : i \in rechazadas}
              /\ Transacciones \subseteq Transacciones'
              /\ Cardinality(nuevas) = Cardinality(admitidas)
              /\ \A i \in admitidas : \E t \in nuevas :
                    /\ t.cuenta_debito_id = IdDeNombre(filas[i].CUENTA_DEBITO)
                    /\ t.cuenta_credito_id = IdDeNombre(filas[i].CUENTA_CREDITO)
                    /\ t.monto = filas[i].MONTO.v
              /\ \A t \in nuevas : \E f \in obtener_transacciones_diario' : f.id = t.id
      ]_vars

\* three rows, the second naming a debit account that does not exist:
\* two entries admitted and listed, one error for sheet row 3 (data row 2)
C10_Witness ==
    /\ ret.op = "importar_transacciones_excel"
    /\ ret.archivo.filas = <<R_ok, R_debito, R_ok>>
    /\ ret.importadas = 2
    /\ Len(ret.errores) = 1
    /\ ret.errores[1].fila = 3
    /\ ret.errores[1].motivo = "debito_no_existe"
    /\ Cardinality(obtener_transacciones_diario) = 2

\* C11: the bulk importer obeys the validation rules of direct entry: every
\* stored entry has a debit account id different from its credit account id.
C11_PartidasDistintas ==
    \A t \in Transacciones : t.cuenta_debito_id # t.cuenta_credito_id

\* C12: referential integrity: both account ids of every stored entry are
\* ids of accounts in the registry.
C12_IntegridadReferencial ==
    \A t \in Transacciones :
        \E cd \in Cuentas, cc \in Cuentas :
            cd.id = t.cuenta_debito_id /\ cc.id = t.cuenta_credito_id

C14_IdsMonotonos ==
    [][ /\ \A t \in Transacciones' \ Transacciones :
              \A u \in Transacciones : t.id > u.id
        /\ NuevoId(Transacciones') >= NuevoId(Transacciones)
      ]_vars

\* C15: eliminar_cuenta with an id that belongs to no account returns
\* failure and leaves registry, journal and name map unchanged.
C15_EliminarCuentaInexistente ==
    [][ ret'.op = "eliminar_cuenta" =>
          \A id \in CuentaIds :
             (eliminar_cuenta(id) /\ id \notin IdsDeCuentas) =>
                ~ret'.exito /\ UNCHANGED <<Cuentas, Transacciones, nombre_a_id>>
      ]_vars

\* the signed amounts of the entries of S on account id: + as debit leg,
\* - as credit leg
RECURSIVE NetoEsperado(_, _)
NetoEsperado(S, id) ==
    IF S = {} THEN 0
    ELSE LET t == CHOOSE x \in S : TRUE
         IN  (IF t.cuenta_debito_id = id THEN t.monto ELSE 0)
             - (IF t.cuenta_credito_id = id THEN t.monto ELSE 0)
             + NetoEsperado(S \ {t}, id)

\* C16: calcular_saldos has exactly the existing account ids as keys and
\* gives each account the sum of the amounts of the entries that debit it
\* minus the sum of those that credit it, 0 for an account with no entries.
C16_SaldosCorrectos ==
    \A saldos \in {calcular_saldos} :
        /\ DOMAIN saldos = IdsDeCuentas
        /\ \A c \in Cuentas :
              /\ saldos[c.id].saldo = NetoEsperado(Transacciones, c.id)
              /\ saldos[c.id].nombre = c.nombre
              /\ saldos[c.id].tipo = c.tipo
              /\ (~\E t \in Transacciones : Referencia(t, c.id))
                    => saldos[c.id].saldo = 0

\* two accounts, one with a debit balance and one with a credit balance
C16_Witness ==
    \E a \in DOMAIN calcular_saldos, b \in DOMAIN calcular_saldos :
        /\ calcular_saldos[a].saldo > 0
        /\ calcular_saldos[b].saldo < 0
        /\ Cardinality(Transacciones) = 2

\* the running balance the ledger should show after each row
SaldoPrevio(filas, i) == IF i = 1 THEN 0 ELSE filas[i - 1].saldo_acumulado

\* C17: the running ledger of an account walks its movements in ascending
\* timestamp order; each row shows the amount in the debit column when the
\* account is the debit leg (else 0) and in the credit column when it is the
\* credit leg (else 0); the running balance grows by credit - debit for an
\* account of type PASIVO, CAPITAL or INGRESO and by debit - credit for any
\* other type.
C17_MayorCorrecto ==
    \A c \in Cuentas :
      \A movimientos \in obtener_movimientos_cuenta(c.id) :
        \A filas \in {actualizar_mayor_cuenta_seleccionada(c.id, movimientos).filas} :
            /\ Len(filas) = Cardinality({t \in Transacciones : Referencia(t, c.id)})
            /\ {movimientos[i] : i \in 1..Len(movimientos)}
                  = {t \in Transacciones : Referencia(t, c.id)}
            /\ \A i \in 1..Len(filas) :
                 /\ i > 1 => filas[i - 1].fecha <= filas[i].fecha
                 /\ filas[i].monto_debito =
                       (IF movimientos[i].cuenta_debito_id = c.id
                        THEN movimientos[i].monto ELSE 0)
                 /\ filas[i].monto_credito =
                       (IF movimientos[i].cuenta_credito_id = c.id
                        THEN movimientos[i].monto ELSE 0)
                 /\ filas[i].saldo_acumulado =
                       (IF c.tipo \in {PASIVO, CAPITAL, INGRESO}
                        THEN SaldoPrevio(filas, i)
                                + filas[i].monto_credito - filas[i].monto_debito
                        ELSE SaldoPrevio(filas, i)
                                + filas[i].monto_debito - filas[i].monto_credito)

\* an ACTIVO account debited 2 and, a second later, credited 1: running
\* balances 2 then 1; the PASIVO account on the other side, credited 2 and
\* then debited 1, shows 2 then 1 as well
C17_Witness ==
    \E c \in Cuentas, p \in Cuentas :
      /\ c.tipo = ACTIVO
      /\ p.tipo = PASIVO
      /\ \E movimientos \in obtener_movimientos_cuenta(c.id) :
           LET filas == actualizar_mayor_cuenta_seleccionada(c.id, movimientos).filas
           IN  /\ Len(filas) = 2
               /\ filas[1].fecha < filas[2].fecha
               /\ filas[1].monto_debito = 2 /\ filas[1].monto_credito = 0
               /\ filas[1].saldo_acumulado = 2
               /\ filas[2].monto_debito = 0 /\ filas[2].monto_credito = 1
               /\ filas[2].saldo_acumulado = 1
      /\ \E movimientos \in obtener_movimientos_cuenta(p.id) :
           LET filas == actualizar_mayor_cuenta_seleccionada(p.id, movimientos).filas
           IN  /\ Len(filas) = 2
               /\ filas[1].saldo_acumulado = 2
               /\ filas[2].saldo_acumulado = 1

\* the sum, over the accounts of S of the given type, of the signed balance
\* of the account or of its absolute value
RECURSIVE SumaPorTipo(_, _, _)
SumaPorTipo(S, tipo, absoluto) ==
    IF S = {} THEN 0
    ELSE LET c == CHOOSE x \in S : TRUE
             neto == NetoEsperado(Transacciones, c.id)
         IN  (IF c.tipo # tipo THEN 0
              ELSE IF absoluto THEN Abs(neto) ELSE neto)
             + SumaPorTipo(S \ {c}, tipo, absoluto)

\* the sum of the debit balances (lado = 1) or of the credit balances
\* (lado = -1) of the accounts of S, as positive amounts
RECURSIVE SumaPorLado(_, _)
SumaPorLado(S, lado) ==
    IF S = {} THEN 0
    ELSE LET c == CHOOSE x \in S : TRUE
             neto == NetoEsperado(Transacciones, c.id)
         IN  (IF neto * lado > 0 THEN neto * lado ELSE 0) + SumaPorLado(S \ {c}, lado)

\* C18: the trial balance lists exactly the accounts whose net balance is not
\* zero; an account with a positive balance shows it in the debit column
\* with credit 0 and adds it to the debit total, an account with a negative
\* balance shows its absolute value in the credit column with debit 0 and
\* adds it to the credit total.
C18_BalanceComprobacion ==
    \A bc \in {actualizar_balance_comp} :
        /\ {f.id : f \in bc.filas}
              = {c.id : c \in {x \in Cuentas : NetoEsperado(Transacciones, x.id) # 0}}
        /\ Cardinality(bc.filas) = Cardinality({f.id : f \in bc.filas})
        /\ \A f \in bc.filas :
              LET neto == NetoEsperado(Transacciones, f.id)
              IN  /\ neto > 0 => (f.debito = neto /\ f.credito = 0)
                  /\ neto < 0 => (f.credito = -neto /\ f.debito = 0)
                  /\ \E c \in Cuentas :
                        c.id = f.id /\ c.nombre = f.nombre /\ c.tipo = f.tipo
        /\ bc.total_debitos_netos = SumaPorLado(Cuentas, 1)
        /\ bc.total_creditos_netos = SumaPorLado(Cuentas, -1)

\* one account listed with debit 3 and the other with credit 3
C18_Witness ==
    LET bc == actualizar_balance_comp
    IN  /\ \E f \in bc.filas, g \in bc.filas :
              /\ f.debito = 3 /\ f.credito = 0
              /\ g.debito = 0 /\ g.credito = 3
        /\ bc.total_debitos_netos = 3
        /\ bc.total_creditos_netos = 3

\* C19: calcular_estado_resultados returns ingresos_totales = the sum of the
\* absolute balances of the INGRESO accounts, gastos_totales = the sum of the
\* signed balances of the GASTO accounts, and utilidad_perdida_neta = their
\* difference; accounts of the other three types do not contribute.
C19_EstadoResultados ==
    \A er \in {calcular_estado_resultados} :
        /\ er.ingresos_totales = SumaPorTipo(Cuentas, INGRESO, TRUE)
        /\ er.gastos_totales = SumaPorTipo(Cuentas, GASTO, FALSE)
        /\ er.utilidad_perdida_neta = er.ingresos_totales - er.gastos_totales
        /\ (\A c \in Cuentas : c.tipo \notin {INGRESO, GASTO}) =>
              (er.ingresos_totales = 0 /\ er.gastos_totales = 0)

\* an INGRESO account debited 1 against a GASTO account: income 1 (absolute
\* value), expenses -1 (signed), result 2
C19_Witness ==
    /\ \E c \in Cuentas : c.tipo = INGRESO /\ SaldoNeto(c.id) = 1
    /\ \E c \in Cuentas : c.tipo = GASTO /\ SaldoNeto(c.id) = -1
    /\ calcular_estado_resultados.ingresos_totales = 1
    /\ calcular_estado_resultados.gastos_totales = -1
    /\ calcular_estado_resultados.utilidad_perdida_neta = 2

\* C20: calcular_balance_general returns activo = the sum of the signed
\* balances of the ACTIVO accounts, pasivo and capital = the sums of the
\* absolute balances of the PASIVO and of the CAPITAL accounts, utilidad_neta
\* = the result of calcular_estado_resultados in the same state, and
\* pasivo_mas_capital_ajustado = pasivo + capital + utilidad_neta.
C20_BalanceGeneral ==
    \A bg \in {calcular_balance_general} :
        /\ bg.activo = SumaPorTipo(Cuentas, ACTIVO, FALSE)
        /\ bg.pasivo = SumaPorTipo(Cuentas, PASIVO, TRUE)
        /\ bg.capital = SumaPorTipo(Cuentas, CAPITAL, TRUE)
        /\ bg.utilidad_neta = calcular_estado_resultados.utilidad_perdida_neta
        /\ bg.pasivo_mas_capital_ajustado = bg.pasivo + bg.capital + bg.utilidad_neta

\* a PASIVO account credited 2 and debited 1 against an INGRESO account:
\* no assets, liabilities 1, result 1, adjusted total 2
C20_Witness ==
    /\ \E c \in Cuentas : c.tipo = PASIVO /\ SaldoNeto(c.id) = -1
    /\ \E c \in Cuentas : c.tipo = INGRESO
    /\ Cardinality(Transacciones) = 2
    /\ calcular_balance_general.activo = 0
    /\ calcular_balance_general.pasivo = 1
    /\ calcular_balance_general.utilidad_neta = 1
    /\ calcular_balance_general.pasivo_mas_capital_ajustado = 2

\* C21: the operations of the balance engine (calcular_saldos,
\* obtener_movimientos_cuenta, calcular_estado_resultados,
\* calcular_balance_general, the trial balance) never mutate state: registry,
\* journal and name map are the same after the call as before it.
C21_MotorSinEfectos ==
    [][ ret'.op \in ConsultasMotor \cup {"calcular_saldos"}
            => UNCHANGED <<Cuentas, Transacciones, nombre_a_id>> ]_vars

\* a balance sheet computed over two accounts and an entry
C21_Witness ==
    /\ ret.op = "calcular_balance_general"
    /\ Cardinality(Cuentas) = 2
    /\ Transacciones # {}
    /\ DOMAIN nombre_a_id # {}

\* C22: a successful eliminar_transaccion(id) removes exactly the entry with
\* that id: every other entry and every account is unchanged, and the
\* balances computed afterwards are the balances of the journal without
\* that entry.
C22_EliminarSoloLaPartida ==
    [][ (ret'.op = "eliminar_transaccion" /\ ret'.exito) =>
          \E id \in TransIds :
             /\ Transacciones' = {t \in Transacciones : t.id # id}
             /\ UNCHANGED <<Cuentas, nombre_a_id>>
             /\ \A saldos \in {calcular_saldos'} :
                   /\ DOMAIN saldos = IdsDeCuentas
                   /\ \A c \in Cuentas :
                         saldos[c.id].saldo
                            = NetoEsperado({t \in Transacciones : t.id # id}, c.id)
      ]_vars

\* entry 1 deleted from a journal of two: entry 2 remains, between two
\* accounts whose balances are those of entry 2 alone
C22_Witness ==
    /\ ret.op = "eliminar_transaccion"
    /\ ret.exito
    /\ {t.id : t \in Transacciones} = {2}
    /\ \E a \in Cuentas, b \in Cuentas :
          SaldoNeto(a.id) > 0 /\ SaldoNeto(b.id) < 0

\* C23: every stored entry has a non-empty description: one that is empty or
\* only whitespace is never stored.
C23_DescripcionNoVacia ==
    \A t \in Transacciones : Strip(t.descripcion) # <<>>

\* the data rows (numbered from 1) of a sheet that the registry rejects
Rechazadas(filas) == {i \in 1..Len(filas) : ~Admisible(filas[i])}

\* C24: the result of a bulk import carries a bounded list of error details:
\* with more than 10 rejected rows, the messages of the first 10 rejected
\* rows in row order and a summary with the count of the others (total
\* minus 10); with 10 or fewer, the messages of all of them and no summary.
C24_DetalleAcotado ==
    (ret.op = "importar_transacciones_excel"
        /\ ret.archivo.existe /\ ret.archivo.columnas_ok) =>
      \A rechazadas \in {Rechazadas(ret.archivo.filas)} :
        \A detalle \in {ret.mensaje_errores.detalle} :
          /\ Len(detalle) = (IF Cardinality(rechazadas) > 10 THEN 10
                             ELSE Cardinality(rechazadas))
          /\ \A k \in 1..Len(detalle) :
                /\ detalle[k].fila - 1 \in rechazadas
                /\ Cardinality({i \in rechazadas : i < detalle[k].fila - 1}) = k - 1
          /\ ret.mensaje_errores.resumen =
                (IF Cardinality(rechazadas) > 10
                 THEN <<Cardinality(rechazadas) - 10>> ELSE <<>>)

\* twelve rows, one admitted and eleven rejected: ten messages, the tenth
\* for sheet row 11, and "1 more"
C24_Witness ==
    /\ ret.op = "importar_transacciones_excel"
    /\ Len(ret.archivo.filas) = 12
    /\ ret.importadas = 1
    /\ Len(ret.errores) = 11
    /\ Len(ret.mensaje_errores.detalle) = 10
    /\ ret.mensaje_errores.detalle[10].fila = 11
    /\ ret.mensaje_errores.resumen = <<1>>

\* C25: the name map stays synchronized with the registry: it has exactly
\* one key per existing account, the uppercase name, mapped to the id of that
\* account, and no key for a deleted or never-created account.
C25_MapaSincronizado ==
    /\ DOMAIN nombre_a_id = {Upper(c.nombre) : c \in Cuentas}
    /\ \A c \in Cuentas : nombre_a_id[Upper(c.nombre)] = c.id
    /\ Cardinality(DOMAIN nombre_a_id) = Cardinality(Cuentas)

\* account 1 deleted and a creation refused afterwards: one account left,
\* with id 2, and its name the only key
C25_Witness ==
    /\ ret.op = "crear_cuenta"
    /\ ~ret.exito
    /\ IdsDeCuentas = {2}
    /\ Cardinality(DOMAIN nombre_a_id) = 1

\* C26: if every stored entry references existing accounts and every PASIVO,
\* CAPITAL and INGRESO account has a net balance <= 0, the balance sheet has
\* activo equal to pasivo_mas_capital_ajustado, whatever the sign of the
\* ACTIVO and GASTO balances.
C26_EcuacionCondicional ==
    (/\ ReferenciasValidas
     /\ \A c \in Cuentas :
           c.tipo \in {PASIVO, CAPITAL, INGRESO} => SaldoNeto(c.id) <= 0)
    => \A bg \in {calcular_balance_general} :
          bg.activo = bg.pasivo_mas_capital_ajustado

\* a CAPITAL account with a credit balance against an ACTIVO account, two
\* entries between them: both sides of the equation are 1
C26_Witness ==
    /\ ReferenciasValidas
    /\ Cardinality(Transacciones) = 2
    /\ \E c \in Cuentas : c.tipo = CAPITAL /\ SaldoNeto(c.id) = -1
    /\ \E c \in Cuentas : c.tipo = ACTIVO /\ SaldoNeto(c.id) = 1
    /\ calcular_balance_general.activo = 1
    /\ calcular_balance_general.pasivo_mas_capital_ajustado = 1

\* C27: for every account the running balance on the last row of its ledger
\* (0 for an empty ledger) equals its net balance from calcular_saldos when
\* its type is ACTIVO or GASTO and the negation of it when its type is
\* PASIVO, CAPITAL or INGRESO; the ledger is empty exactly when no entry
\* touches the account.
C27_MayorCierraConSaldo ==
    \A saldos \in {calcular_saldos} :
      \A c \in Cuentas :
        \A movimientos \in obtener_movimientos_cuenta(c.id) :
          \A mayor \in {actualizar_mayor_cuenta_seleccionada(c.id, movimientos)} :
            /\ (IF Len(mayor.filas) = 0 THEN 0
                ELSE mayor.filas[Len(mayor.filas)].saldo_acumulado)
                  = (IF c.tipo \in {ACTIVO, GASTO}
                     THEN saldos[c.id].saldo ELSE -saldos[c.id].saldo)
            /\ mayor.saldo_actual
                  = (IF c.tipo \in {ACTIVO, GASTO}
                     THEN saldos[c.id].saldo ELSE -saldos[c.id].saldo)
            /\ (Len(mayor.filas) = 0)
                  <=> ~\E t \in Transacciones : Referencia(t, c.id)

\* an INGRESO account credited 2 and credited 1: its ledger ends at 3 and
\* its net balance is -3; the GASTO account on the other side ends at 3
C27_Witness ==
    \E c \in Cuentas, g \in Cuentas :
      /\ c.tipo = INGRESO /\ calcular_saldos[c.id].saldo = -3
      /\ g.tipo = GASTO /\ calcular_saldos[g.id].saldo = 3
      /\ \E movimientos \in obtener_movimientos_cuenta(c.id) :
            /\ Len(movimientos) = 2
            /\ actualizar_mayor_cuenta_seleccionada(c.id, movimientos).saldo_actual = 3
      /\ \E movimientos \in obtener_movimientos_cuenta(g.id) :
            actualizar_mayor_cuenta_seleccionada(g.id, movimientos).saldo_actual = 3

\* C28: a successful eliminar_cuenta changes no report: the journal, the net
\* balance of every remaining account, the totals of the trial balance, of
\* the income statement and of the balance sheet are the same after the
\* deletion as before it.
C28_EliminarCuentaSinEfecto ==
    [][ (ret'.op = "eliminar_cuenta" /\ ret'.exito) =>
          /\ Transacciones' = Transacciones
          /\ \A antes \in {calcular_saldos}, despues \in {calcular_saldos'} :
                /\ DOMAIN despues \subseteq DOMAIN antes
                /\ \A id \in DOMAIN despues : despues[id] = antes[id]
          /\ \A antes \in {actualizar_balance_comp},
                despues \in {actualizar_balance_comp'} :
                /\ despues.total_debitos_netos = antes.total_debitos_netos
                /\ despues.total_creditos_netos = antes.total_creditos_netos
          /\ calcular_estado_resultados' = calcular_estado_resultados
          /\ calcular_balance_general' = calcular_balance_general
      ]_vars

\* an account deleted while the journal holds an entry of the account that
\* remains
C28_Witness ==
    /\ ret.op = "eliminar_cuenta"
    /\ ret.exito
    /\ Cardinality(Cuentas) = 1
    /\ \E c \in Cuentas : \E t \in Transacciones : Referencia(t, c.id)

\* an entry of the journal made from the row f
EntradaDeFila(t, f) ==
    /\ t.cuenta_debito_id = IdDeNombre(f.CUENTA_DEBITO)
    /\ t.cuenta_credito_id = IdDeNombre(f.CUENTA_CREDITO)
    /\ t.monto = f.MONTO.v
    /\ t.descripcion = Strip(f.DESCRIPCION)

\* C29: importar_transacciones_excel returns the flag True exactly when no
\* row of the batch was rejected; when a row is rejected it returns False
\* although every admitted row of the batch is committed and stays stored.
C29_BanderaImportacion ==
    (ret.op = "importar_transacciones_excel"
        /\ ret.archivo.existe /\ ret.archivo.columnas_ok) =>
      \A filas \in {ret.archivo.filas} :
        /\ ret.exito <=> (\A i \in 1..Len(filas) : Admisible(filas[i]))
        /\ ret.exito <=> (ret.errores = <<>>)
        /\ ret.importadas = Cardinality({i \in 1..Len(filas) : Admisible(filas[i])})
        /\ Cardinality(Transacciones) >= ret.importadas
        /\ \A i \in 1..Len(filas) :
              Admisible(filas[i]) => \E t \in Transacciones : EntradaDeFila(t, filas[i])

\* a batch reported as failed with its two admitted rows in the journal
C29_Witness ==
    /\ ret.op = "importar_transacciones_excel"
    /\ ~ret.exito
    /\ ret.mensaje = "importacion_parcial"
    /\ ret.importadas = 2
    /\ Cardinality({t \in Transacciones : EntradaDeFila(t, R_ok)}) = 2

\* the outcome of a row by the order of the tests: the first that fails
\* gives the error, a row that passes the four is admitted
ResultadoEsperado(f) ==
    IF f.MONTO.k # "num" THEN "formato_monto"
    ELSE IF ~Resuelve(f.CUENTA_DEBITO) THEN "debito_no_existe"
    ELSE IF ~Resuelve(f.CUENTA_CREDITO) THEN "credito_no_existe"
    ELSE IF f.MONTO.v <= 0 THEN "monto_no_positivo"
    ELSE "admitida"

\* C30: in a bulk import every row has exactly one outcome: admitted (one
\* entry stored, the admitted count one higher) or rejected with exactly one
\* error message, the tests made in the order amount missing or not numeric,
\* debit name unresolved, credit name unresolved, amount <= 0; the admitted
\* count plus the number of error messages is the number of rows and the
\* journal grows by exactly the admitted count.
C30_UnResultadoPorFila ==
    [][ (ret'.op = "importar_transacciones_excel"
            /\ ret'.archivo.existe /\ ret'.archivo.columnas_ok) =>
          \A filas \in {ret'.archivo.filas}, errores \in {ret'.errores} :
            /\ ret'.importadas + Len(errores) = Len(filas)
            /\ Transacciones \subseteq Transacciones'
            /\ Cardinality(Transacciones') = Cardinality(Transacciones) + ret'.importadas
            /\ ret'.importadas
                  = Cardinality({i \in 1..Len(filas) : ResultadoEsperado(filas[i]) = "admitida"})
            /\ \A i \in 1..Len(filas) :
                  Cardinality({k \in 1..Len(errores) : errores[k].fila = i + 1})
                     = (IF ResultadoEsperado(filas[i]) = "admitida" THEN 0 ELSE 1)
            /\ \A k \in 1..Len(errores) :
                  /\ errores[k].fila - 1 \in 1..Len(filas)
                  /\ errores[k].motivo = ResultadoEsperado(filas[errores[k].fila - 1])
      ]_vars

\* a row with amount 0 whose debit account does not exist, rejected for the
\* account, after two rows rejected for the format of the amount
C30_Witness ==
    /\ ret.op = "importar_transacciones_excel"
    /\ ret.archivo.filas = <<R_vacio, R_texto, R_cero>>
    /\ ret.importadas = 0
    /\ Len(ret.errores) = 3
    /\ ret.errores[1].motivo = "formato_monto"
    /\ ret.errores[2].motivo = "formato_monto"
    /\ ret.errores[3].motivo = "debito_no_existe"
    /\ Transacciones # {}

====
